---- MODULE Spec2Model ----
(***************************************************************************)
(* Model of the OnChainDiary contracts (contracts/OnChainDiary.sol).       *)
(*                                                                         *)
(* The ACL variant (contract at lines 166-312) keeps a table of entries,   *)
(* a counter nextEntryId and an access table entryAccess.  Each external   *)
(* function is one action; a call that reverts leaves the storage as it    *)
(* was and is recorded, with its revert reason, in the variable last (the  *)
(* receipt / call result the caller observes).                             *)
(*                                                                         *)
(* The per-user variant (contract at lines 10-156) keeps a list of entries *)
(* per user, userDiaries, and a counter per user, diaryCount.              *)
(***************************************************************************)
EXTENDS Integers, Sequences, FiniteSets, TLC

(***************************************************************************)
(* Bounds of the model.                                                    *)
(***************************************************************************)
MaxEntries == 2
MaxTime == 2
\* saveDiary calls that succeed, over all users
MaxSaves == 3
\* entries the DiaryList component can list
MaxListed == 2
\* decryptEntry calls started between two loads of the list
MaxDecrypts == 2

\* the signers of the test suite
Users == {"alice", "bob"}
\* ids a call may name: 0 (never issued) and every id that can be issued
Ids == 0..MaxEntries
Contents == {"", "Today was a great day!"}
\* ciphertext handles (bytes32); 0 is the uninitialised handle of storage
Handles == {1, 2}
Times == 1..MaxTime
\* the contract's own address, as a holder of coprocessor permissions
This == "this"

\* an input proof attests a handle for one (contract, user) pair:
\* a record [handle, user]

\* inputs of the access-control specification
AccessContents == {"Today was a great day!"}
AccessHandles == {1}
\* caller of the stored-data specification
DataUsers == {"alice"}

VARIABLES
    entries,        \* mapping(uint256 => DiaryEntry)
    nextEntryId,    \* uint256 counter
    entryAccess,    \* mapping(uint256 => mapping(address => bool))
    fheAllowed,     \* coprocessor ACL: handle -> identities allowed to decrypt
    now,            \* block.timestamp
    created,        \* history: the addEntry call that issued each id
    last,           \* the most recent call and its outcome
    userDiaries,    \* mapping(address => DiaryEntry[]), per-user variant
    diaryCount,     \* mapping(address => uint256), per-user variant
    hashAllowed,    \* coprocessor ACL of the per-user variant's handles
    saved,          \* history: the successful saveDiary calls, in ledger order
    taskPc,         \* task:add-diary: where the task is
    taskEntryId,    \* history: the id the task's own addEntry returned
    taskOutput,     \* task:add-diary: the value printed as "Entry ID"
    entriesState,   \* DiaryList: useState entries
    isLoading,      \* DiaryList: useState isLoading
    decryptingEntries, \* DiaryList: useState decryptingEntries
    decryptCalls,   \* DiaryList: the decryptEntry calls that have not finished
    decryptLog      \* history: decryptEntry starts and ends since the last load

state == <<entries, nextEntryId, entryAccess, fheAllowed, now, created>>
\* storage of the per-user variant, with its history
userState == <<userDiaries, diaryCount, hashAllowed, saved>>
\* state of the command-line task
taskState == <<taskPc, taskEntryId, taskOutput>>
\* state of the DiaryList component, with its history
listState == <<entriesState, isLoading, decryptingEntries, decryptCalls, decryptLog>>
\* state of the programs that use the contract
clientState == <<taskState, listState>>
vars == <<entries, nextEntryId, entryAccess, fheAllowed, now, created, last,
          userDiaries, diaryCount, hashAllowed, saved,
          taskPc, taskEntryId, taskOutput,
          entriesState, isLoading, decryptingEntries, decryptCalls, decryptLog>>

NoEntry == [content |-> "", encryptedAuthor |-> 0, timestamp |-> 0, exists |-> FALSE]
\* history record of an id that no addEntry has issued
NoCreation == [creator |-> "none", content |-> "", encryptedAuthorInput |-> 0,
               timestamp |-> 0]

\* outcome of a call: a revert carries its reason and no data, no events
Revert(reason) == [status |-> reason, ret |-> <<>>, logs |-> <<>>]
Return(data) == [status |-> "ok", ret |-> data, logs |-> <<>>]
Receipt(data, events) == [status |-> "ok", ret |-> data, logs |-> events]

Call(op, sender, entryId, user, outcome) ==
    [op |-> op, caller |-> sender, id |-> entryId, user |-> user,
     status |-> outcome.status, ret |-> outcome.ret, logs |-> outcome.logs]

(***************************************************************************)
(* constructor                                                             *)
(***************************************************************************)
Init ==
    /\ taskPc = "start"
    /\ taskEntryId = 0
    /\ taskOutput = 0
    /\ entriesState = <<>>
    /\ isLoading = TRUE
    /\ decryptingEntries = {}
    /\ decryptCalls = {}
    /\ decryptLog = <<>>
    /\ userDiaries = [u \in Users |-> <<>>]
    /\ diaryCount = [u \in Users |-> 0]
    /\ hashAllowed = [h \in Handles |-> {}]
    /\ saved = <<>>
    /\ entries = [i \in Ids |-> NoEntry]
    /\ nextEntryId = 1
    /\ entryAccess = [i \in Ids |-> [u \in Users |-> FALSE]]
    /\ fheAllowed = [h \in Handles |-> {}]
    /\ now = 1
    /\ created = [i \in Ids |-> NoCreation]
    /\ last = Call("constructor", "deployer", 0, "deployer", Return(<<>>))

(***************************************************************************)
(* FHE.fromExternal: the coprocessor accepts the handle only with a proof  *)
(* made for this handle and this caller; the imported handle is the same   *)
(* bytes32 value.                                                          *)
(***************************************************************************)
fromExternalOk(sender, encryptedAuthorInput, inputProof) ==
    /\ inputProof.handle = encryptedAuthorInput
    /\ inputProof.user = sender

(***************************************************************************)
(* View functions, as functions of the storage and msg.sender.             *)
(***************************************************************************)
entryExists(entryId) == entries[entryId].exists

getTotalEntries == nextEntryId - 1

hasAccess(entryId, user) == entryAccess[entryId][user]

\* getEntry without its access check
getEntry_NoAccessCheck(sender, entryId) ==
    IF ~entries[entryId].exists THEN Revert("Entry does not exist")
    ELSE Return(<<entries[entryId].content, entries[entryId].encryptedAuthor,
                  entries[entryId].timestamp>>)

getEntry(sender, entryId) ==
    IF ~entries[entryId].exists THEN Revert("Entry does not exist")
    ELSE IF ~entryAccess[entryId][sender] THEN Revert("Access denied")
    ELSE Return(<<entries[entryId].content, entries[entryId].encryptedAuthor,
                  entries[entryId].timestamp>>)

\* getEntryContent reading the most recent entry instead of entryId
getEntryContent_Latest(sender, entryId) ==
    IF ~entries[entryId].exists THEN Revert("Entry does not exist")
    ELSE IF ~entryAccess[entryId][sender] THEN Revert("Access denied")
    ELSE Return(<<entries[nextEntryId - 1].content>>)

getEntryContent(sender, entryId) ==
    IF ~entries[entryId].exists THEN Revert("Entry does not exist")
    ELSE IF ~entryAccess[entryId][sender] THEN Revert("Access denied")
    ELSE Return(<<entries[entryId].content>>)

\* getEntryAuthor with its two checks in the other order
getEntryAuthor_AccessFirst(sender, entryId) ==
    IF ~entryAccess[entryId][sender] THEN Revert("Access denied")
    ELSE IF ~entries[entryId].exists THEN Revert("Entry does not exist")
    ELSE Return(<<entries[entryId].encryptedAuthor>>)

getEntryAuthor(sender, entryId) ==
    IF ~entries[entryId].exists THEN Revert("Entry does not exist")
    ELSE IF ~entryAccess[entryId][sender] THEN Revert("Access denied")
    ELSE Return(<<entries[entryId].encryptedAuthor>>)

(***************************************************************************)
(* addEntry                                                                *)
(***************************************************************************)
\* body of addEntry once the proof is accepted, storing under entryId and
\* leaving the counter at counter
addEntryAs(sender, content, encryptedAuthorInput, entryId, counter) ==
    /\ nextEntryId' = counter
    /\ entries' = [entries EXCEPT ![entryId] =
           [content |-> content, encryptedAuthor |-> encryptedAuthorInput,
            timestamp |-> now, exists |-> TRUE]]
    /\ fheAllowed' = [fheAllowed EXCEPT ![encryptedAuthorInput] =
           @ \cup {This, sender}]
    /\ entryAccess' = [entryAccess EXCEPT ![entryId][sender] = TRUE]
    /\ created' = [created EXCEPT ![entryId] =
           [creator |-> sender, content |-> content,
            encryptedAuthorInput |-> encryptedAuthorInput, timestamp |-> now]]
    /\ last' = Call("addEntry", sender, entryId, sender,
           Receipt(<<entryId>>, << <<"DiaryEntryAdded", entryId, sender, now>> >>))
    /\ UNCHANGED now

\* addEntry with entryId = nextEntryId, the increment forgotten
addEntry_NoIncrement(sender, content, encryptedAuthorInput, inputProof) ==
    /\ UNCHANGED userState
    /\ nextEntryId <= MaxEntries
    /\ IF ~fromExternalOk(sender, encryptedAuthorInput, inputProof)
       THEN /\ last' = Call("addEntry", sender, 0, sender, Revert("InvalidProof"))
            /\ UNCHANGED state
       ELSE addEntryAs(sender, content, encryptedAuthorInput, nextEntryId, nextEntryId)

\* addEntry with entryId = ++nextEntryId
addEntry_PreIncrement(sender, content, encryptedAuthorInput, inputProof) ==
    /\ UNCHANGED userState
    /\ nextEntryId <= MaxEntries
    /\ IF ~fromExternalOk(sender, encryptedAuthorInput, inputProof)
       THEN /\ last' = Call("addEntry", sender, 0, sender, Revert("InvalidProof"))
            /\ UNCHANGED state
       ELSE addEntryAs(sender, content, encryptedAuthorInput,
                       nextEntryId + 1, nextEntryId + 1)

\* addEntry taking the handle without asking the coprocessor
addEntry_IgnoresProof(sender, content, encryptedAuthorInput, inputProof) ==
    /\ UNCHANGED userState
    /\ nextEntryId <= MaxEntries
    /\ addEntryAs(sender, content, encryptedAuthorInput, nextEntryId, nextEntryId + 1)

addEntry(sender, content, encryptedAuthorInput, inputProof) ==
    /\ UNCHANGED userState
    /\ nextEntryId <= MaxEntries
    /\ IF ~fromExternalOk(sender, encryptedAuthorInput, inputProof)
       THEN /\ last' = Call("addEntry", sender, 0, sender, Revert("InvalidProof"))
            /\ UNCHANGED state
       ELSE LET encryptedAuthor == encryptedAuthorInput
                entryId == nextEntryId
            IN /\ nextEntryId' = nextEntryId + 1
               /\ entries' = [entries EXCEPT ![entryId] =
                      [content |-> content, encryptedAuthor |-> encryptedAuthor,
                       timestamp |-> now, exists |-> TRUE]]
               /\ fheAllowed' = [fheAllowed EXCEPT ![encryptedAuthor] =
                      @ \cup {This, sender}]
               /\ entryAccess' = [entryAccess EXCEPT ![entryId][sender] = TRUE]
               /\ created' = [created EXCEPT ![entryId] =
                      [creator |-> sender, content |-> content,
                       encryptedAuthorInput |-> encryptedAuthorInput,
                       timestamp |-> now]]
               /\ last' = Call("addEntry", sender, entryId, sender,
                      Receipt(<<entryId>>,
                              << <<"DiaryEntryAdded", entryId, sender, now>> >>))
               /\ UNCHANGED now

\* an addEntry transaction of a caller that is none of the programs below
CallAddEntry(sender, content, encryptedAuthorInput, inputProof) ==
    /\ addEntry(sender, content, encryptedAuthorInput, inputProof)
    /\ UNCHANGED clientState

(***************************************************************************)
(* grantAccess / revokeAccess                                              *)
(***************************************************************************)
\* successful grantAccess / revokeAccess writing the pair (entryId, who)
setAccessAs(op, event, sender, entryId, user, who, value) ==
    /\ entryAccess' = [entryAccess EXCEPT ![entryId][who] = value]
    /\ last' = Call(op, sender, entryId, user,
           Receipt(<<>>, << <<event, entryId, user>> >>))

\* grantAccess writing entryAccess[entryId][msg.sender]
grantAccess_GrantsSender(sender, entryId, user) ==
    /\ UNCHANGED <<userState, clientState>>
    /\ IF ~entries[entryId].exists
       THEN /\ last' = Call("grantAccess", sender, entryId, user,
                            Revert("Entry does not exist"))
            /\ UNCHANGED state
       ELSE IF ~entryAccess[entryId][sender]
       THEN /\ last' = Call("grantAccess", sender, entryId, user,
                            Revert("Only authorized users can grant access"))
            /\ UNCHANGED state
       ELSE /\ setAccessAs("grantAccess", "AccessGranted", sender, entryId, user, sender, TRUE)
            /\ fheAllowed' = [fheAllowed EXCEPT ![entries[entryId].encryptedAuthor] =
                   @ \cup {user}]
            /\ UNCHANGED <<entries, nextEntryId, now, created>>

\* grantAccess that also refreshes the entry's timestamp
grantAccess_TouchesTimestamp(sender, entryId, user) ==
    /\ UNCHANGED <<userState, clientState>>
    /\ IF ~entries[entryId].exists
       THEN /\ last' = Call("grantAccess", sender, entryId, user,
                            Revert("Entry does not exist"))
            /\ UNCHANGED state
       ELSE IF ~entryAccess[entryId][sender]
       THEN /\ last' = Call("grantAccess", sender, entryId, user,
                            Revert("Only authorized users can grant access"))
            /\ UNCHANGED state
       ELSE /\ setAccessAs("grantAccess", "AccessGranted", sender, entryId, user, user, TRUE)
            /\ fheAllowed' = [fheAllowed EXCEPT ![entries[entryId].encryptedAuthor] =
                   @ \cup {user}]
            /\ entries' = [entries EXCEPT ![entryId].timestamp = now]
            /\ UNCHANGED <<nextEntryId, now, created>>

\* grantAccess flipping the pair's permission
grantAccess_Toggles(sender, entryId, user) ==
    /\ UNCHANGED <<userState, clientState>>
    /\ IF ~entries[entryId].exists
       THEN /\ last' = Call("grantAccess", sender, entryId, user,
                            Revert("Entry does not exist"))
            /\ UNCHANGED state
       ELSE IF ~entryAccess[entryId][sender]
       THEN /\ last' = Call("grantAccess", sender, entryId, user,
                            Revert("Only authorized users can grant access"))
            /\ UNCHANGED state
       ELSE /\ setAccessAs("grantAccess", "AccessGranted", sender, entryId, user, user,
                           ~entryAccess[entryId][user])
            /\ fheAllowed' = [fheAllowed EXCEPT ![entries[entryId].encryptedAuthor] =
                   @ \cup {user}]
            /\ UNCHANGED <<entries, nextEntryId, now, created>>

\* grantAccess emitting AccessGranted only when the permission changes
grantAccess_EventOnChange(sender, entryId, user) ==
    /\ UNCHANGED <<userState, clientState>>
    /\ IF ~entries[entryId].exists
       THEN /\ last' = Call("grantAccess", sender, entryId, user,
                            Revert("Entry does not exist"))
            /\ UNCHANGED state
       ELSE IF ~entryAccess[entryId][sender]
       THEN /\ last' = Call("grantAccess", sender, entryId, user,
                            Revert("Only authorized users can grant access"))
            /\ UNCHANGED state
       ELSE /\ entryAccess' = [entryAccess EXCEPT ![entryId][user] = TRUE]
            /\ fheAllowed' = [fheAllowed EXCEPT ![entries[entryId].encryptedAuthor] =
                   @ \cup {user}]
            /\ last' = Call("grantAccess", sender, entryId, user,
                   Receipt(<<>>, IF entryAccess[entryId][user] THEN <<>>
                                 ELSE << <<"AccessGranted", entryId, user>> >>))
            /\ UNCHANGED <<entries, nextEntryId, now, created>>

\* grantAccess without its existence check
grantAccess_NoExistsCheck(sender, entryId, user) ==
    /\ UNCHANGED <<userState, clientState>>
    /\ IF entries[entryId].exists /\ ~entryAccess[entryId][sender]
       THEN /\ last' = Call("grantAccess", sender, entryId, user,
                            Revert("Only authorized users can grant access"))
            /\ UNCHANGED state
       ELSE /\ entryAccess' = [entryAccess EXCEPT ![entryId][user] = TRUE]
            /\ fheAllowed' = [h \in Handles |->
                   IF h = entries[entryId].encryptedAuthor
                   THEN fheAllowed[h] \cup {user} ELSE fheAllowed[h]]
            /\ last' = Call("grantAccess", sender, entryId, user,
                   Receipt(<<>>, << <<"AccessGranted", entryId, user>> >>))
            /\ UNCHANGED <<entries, nextEntryId, now, created>>

\* grantAccess without its authorization check
grantAccess_NoAuthCheck(sender, entryId, user) ==
    /\ UNCHANGED <<userState, clientState>>
    /\ IF ~entries[entryId].exists
       THEN /\ last' = Call("grantAccess", sender, entryId, user,
                            Revert("Entry does not exist"))
            /\ UNCHANGED state
       ELSE /\ setAccessAs("grantAccess", "AccessGranted", sender, entryId, user, user, TRUE)
            /\ fheAllowed' = [fheAllowed EXCEPT ![entries[entryId].encryptedAuthor] =
                   @ \cup {user}]
            /\ UNCHANGED <<entries, nextEntryId, now, created>>

\* grantAccess without FHE.allow
grantAccess_NoAllow(sender, entryId, user) ==
    /\ UNCHANGED <<userState, clientState>>
    /\ IF ~entries[entryId].exists
       THEN /\ last' = Call("grantAccess", sender, entryId, user,
                            Revert("Entry does not exist"))
            /\ UNCHANGED state
       ELSE IF ~entryAccess[entryId][sender]
       THEN /\ last' = Call("grantAccess", sender, entryId, user,
                            Revert("Only authorized users can grant access"))
            /\ UNCHANGED state
       ELSE /\ setAccessAs("grantAccess", "AccessGranted", sender, entryId, user, user, TRUE)
            /\ UNCHANGED <<entries, nextEntryId, fheAllowed, now, created>>

grantAccess(sender, entryId, user) ==
    /\ UNCHANGED <<userState, clientState>>
    /\ IF ~entries[entryId].exists
       THEN /\ last' = Call("grantAccess", sender, entryId, user,
                            Revert("Entry does not exist"))
            /\ UNCHANGED state
       ELSE IF ~entryAccess[entryId][sender]
       THEN /\ last' = Call("grantAccess", sender, entryId, user,
                            Revert("Only authorized users can grant access"))
            /\ UNCHANGED state
       ELSE /\ entryAccess' = [entryAccess EXCEPT ![entryId][user] = TRUE]
            /\ fheAllowed' = [fheAllowed EXCEPT ![entries[entryId].encryptedAuthor] =
                   @ \cup {user}]
            /\ last' = Call("grantAccess", sender, entryId, user,
                   Receipt(<<>>, << <<"AccessGranted", entryId, user>> >>))
            /\ UNCHANGED <<entries, nextEntryId, now, created>>

\* revokeAccess that deletes the entry
revokeAccess_DeletesEntry(sender, entryId, user) ==
    /\ UNCHANGED <<userState, clientState>>
    /\ IF ~entries[entryId].exists
       THEN /\ last' = Call("revokeAccess", sender, entryId, user,
                            Revert("Entry does not exist"))
            /\ UNCHANGED state
       ELSE IF ~entryAccess[entryId][sender]
       THEN /\ last' = Call("revokeAccess", sender, entryId, user,
                            Revert("Only authorized users can revoke access"))
            /\ UNCHANGED state
       ELSE /\ setAccessAs("revokeAccess", "AccessRevoked", sender, entryId, user, user, FALSE)
            /\ entries' = [entries EXCEPT ![entryId] = NoEntry]
            /\ UNCHANGED <<nextEntryId, fheAllowed, now, created>>

\* revokeAccess writing entryAccess[entryId][msg.sender]
revokeAccess_RevokesSender(sender, entryId, user) ==
    /\ UNCHANGED <<userState, clientState>>
    /\ IF ~entries[entryId].exists
       THEN /\ last' = Call("revokeAccess", sender, entryId, user,
                            Revert("Entry does not exist"))
            /\ UNCHANGED state
       ELSE IF ~entryAccess[entryId][sender]
       THEN /\ last' = Call("revokeAccess", sender, entryId, user,
                            Revert("Only authorized users can revoke access"))
            /\ UNCHANGED state
       ELSE /\ setAccessAs("revokeAccess", "AccessRevoked", sender, entryId, user, sender, FALSE)
            /\ UNCHANGED <<entries, nextEntryId, fheAllowed, now, created>>

\* revokeAccess without its authorization check
revokeAccess_NoAuthCheck(sender, entryId, user) ==
    /\ UNCHANGED <<userState, clientState>>
    /\ IF ~entries[entryId].exists
       THEN /\ last' = Call("revokeAccess", sender, entryId, user,
                            Revert("Entry does not exist"))
            /\ UNCHANGED state
       ELSE /\ entryAccess' = [entryAccess EXCEPT ![entryId][user] = FALSE]
            /\ last' = Call("revokeAccess", sender, entryId, user,
                   Receipt(<<>>, << <<"AccessRevoked", entryId, user>> >>))
            /\ UNCHANGED <<entries, nextEntryId, fheAllowed, now, created>>

\* revokeAccess reserved to the caller of the addEntry that issued entryId
revokeAccess_OwnerOnly(sender, entryId, user) ==
    /\ UNCHANGED <<userState, clientState>>
    /\ IF ~entries[entryId].exists
       THEN /\ last' = Call("revokeAccess", sender, entryId, user,
                            Revert("Entry does not exist"))
            /\ UNCHANGED state
       ELSE IF sender # created[entryId].creator
       THEN /\ last' = Call("revokeAccess", sender, entryId, user,
                            Revert("Only authorized users can revoke access"))
            /\ UNCHANGED state
       ELSE /\ entryAccess' = [entryAccess EXCEPT ![entryId][user] = FALSE]
            /\ last' = Call("revokeAccess", sender, entryId, user,
                   Receipt(<<>>, << <<"AccessRevoked", entryId, user>> >>))
            /\ UNCHANGED <<entries, nextEntryId, fheAllowed, now, created>>

\* revokeAccess that also takes the decrypt permission on the handle back
revokeAccess_RetractsPermission(sender, entryId, user) ==
    /\ UNCHANGED <<userState, clientState>>
    /\ IF ~entries[entryId].exists
       THEN /\ last' = Call("revokeAccess", sender, entryId, user,
                            Revert("Entry does not exist"))
            /\ UNCHANGED state
       ELSE IF ~entryAccess[entryId][sender]
       THEN /\ last' = Call("revokeAccess", sender, entryId, user,
                            Revert("Only authorized users can revoke access"))
            /\ UNCHANGED state
       ELSE /\ setAccessAs("revokeAccess", "AccessRevoked", sender, entryId, user, user, FALSE)
            /\ fheAllowed' = [fheAllowed EXCEPT ![entries[entryId].encryptedAuthor] =
                   @ \ {user}]
            /\ UNCHANGED <<entries, nextEntryId, now, created>>

revokeAccess(sender, entryId, user) ==
    /\ UNCHANGED <<userState, clientState>>
    /\ IF ~entries[entryId].exists
       THEN /\ last' = Call("revokeAccess", sender, entryId, user,
                            Revert("Entry does not exist"))
            /\ UNCHANGED state
       ELSE IF ~entryAccess[entryId][sender]
       THEN /\ last' = Call("revokeAccess", sender, entryId, user,
                            Revert("Only authorized users can revoke access"))
            /\ UNCHANGED state
       ELSE /\ entryAccess' = [entryAccess EXCEPT ![entryId][user] = FALSE]
            /\ last' = Call("revokeAccess", sender, entryId, user,
                   Receipt(<<>>, << <<"AccessRevoked", entryId, user>> >>))
            /\ UNCHANGED <<entries, nextEntryId, fheAllowed, now, created>>

(***************************************************************************)
(* Calls of the view functions: the storage is untouched, the caller       *)
(* observes the outcome.                                                   *)
(***************************************************************************)
CallGetEntry(sender, entryId) ==
    /\ UNCHANGED <<userState, clientState>>
    /\ last' = Call("getEntry", sender, entryId, sender, getEntry(sender, entryId))
    /\ UNCHANGED state

CallGetEntryContent(sender, entryId) ==
    /\ UNCHANGED <<userState, clientState>>
    /\ last' = Call("getEntryContent", sender, entryId, sender,
                    getEntryContent(sender, entryId))
    /\ UNCHANGED state

CallGetEntryAuthor(sender, entryId) ==
    /\ UNCHANGED <<userState, clientState>>
    /\ last' = Call("getEntryAuthor", sender, entryId, sender,
                    getEntryAuthor(sender, entryId))
    /\ UNCHANGED state

(***************************************************************************)
(* The ledger: a later block carries a later timestamp.                    *)
(***************************************************************************)
MineBlock ==
    /\ UNCHANGED <<userState, clientState>>
    /\ now < MaxTime
    /\ now' = now + 1
    /\ UNCHANGED <<entries, nextEntryId, entryAccess, fheAllowed, created, last>>

(***************************************************************************)
(* The per-user variant.  A list index of the contract is 0-based; the     *)
(* entry at index k is element k + 1 of the sequence.                      *)
(***************************************************************************)
\* time arguments a call may name: every timestamp the clock can give
QueryTimes == Times

\* indices a call may name: every index that can be filled, and one beyond
Indices == 0..MaxSaves

\* the history record of a successful saveDiary
Saved(sender, validatedHash) ==
    [user |-> sender, encryptedIpfsHash |-> validatedHash, timestamp |-> now]

getUserDiaryCount(user) == Len(userDiaries[user])

\* getDiaryEntry accepting index = length, read as an empty storage slot
getDiaryEntry_OffByOne(user, index) ==
    IF ~(index <= Len(userDiaries[user])) THEN Revert("Diary entry does not exist")
    ELSE IF index = Len(userDiaries[user]) THEN Return(<<0, 0>>)
    ELSE LET entry == userDiaries[user][index + 1]
         IN Return(<<entry.encryptedIpfsHash, entry.timestamp>>)

getDiaryEntry(user, index) ==
    IF ~(index < Len(userDiaries[user])) THEN Revert("Diary entry does not exist")
    ELSE LET entry == userDiaries[user][index + 1]
         IN Return(<<entry.encryptedIpfsHash, entry.timestamp>>)

\* getAllDiaries filling its arrays from the newest entry to the oldest
getAllDiaries_NewestFirst(user) ==
    LET count == Len(userDiaries[user])
    IN Return(<<[i \in 1..count |-> userDiaries[user][count + 1 - i].encryptedIpfsHash],
                [i \in 1..count |-> userDiaries[user][count + 1 - i].timestamp]>>)

getAllDiaries(user) ==
    LET count == Len(userDiaries[user])
    IN Return(<<[i \in 1..count |-> userDiaries[user][i].encryptedIpfsHash],
                [i \in 1..count |-> userDiaries[user][i].timestamp]>>)

\* getLatestDiary reading the first entry of the list
getLatestDiary_First(user) ==
    IF ~(Len(userDiaries[user]) > 0) THEN Revert("No diary entries found")
    ELSE LET latestIndex == Len(userDiaries[user]) - 1
             latestEntry == userDiaries[user][1]
         IN Return(<<latestEntry.encryptedIpfsHash, latestEntry.timestamp, latestIndex>>)

getLatestDiary(user) ==
    IF ~(Len(userDiaries[user]) > 0) THEN Revert("No diary entries found")
    ELSE LET latestIndex == Len(userDiaries[user]) - 1
             latestEntry == userDiaries[user][latestIndex + 1]
         IN Return(<<latestEntry.encryptedIpfsHash, latestEntry.timestamp, latestIndex>>)

\* the condition of both passes of getDiariesInTimeRange
inTimeRange(entry, startTime, endTime) ==
    entry.timestamp >= startTime /\ entry.timestamp <= endTime

\* the second pass of getDiariesInTimeRange from index i on: the entries in
\* range with their indices, in the order the loop meets them
RECURSIVE populate(_, _, _, _)
populate(list, i, startTime, endTime) ==
    IF ~(i < Len(list)) THEN <<>>
    ELSE IF inTimeRange(list[i + 1], startTime, endTime)
         THEN << [encryptedIpfsHash |-> list[i + 1].encryptedIpfsHash,
                  timestamp |-> list[i + 1].timestamp, index |-> i] >>
              \o populate(list, i + 1, startTime, endTime)
         ELSE populate(list, i + 1, startTime, endTime)

\* getDiariesInTimeRange with an exclusive endTime
getDiariesInTimeRange_EndExclusive(user, startTime, endTime) ==
    IF ~(startTime <= endTime) THEN Revert("Invalid time range")
    ELSE LET found == populate(userDiaries[user], 0, startTime, endTime - 1)
             matchCount == Len(found)
         IN Return(<<[k \in 1..matchCount |-> found[k].encryptedIpfsHash],
                     [k \in 1..matchCount |-> found[k].timestamp],
                     [k \in 1..matchCount |-> found[k].index]>>)

getDiariesInTimeRange(user, startTime, endTime) ==
    IF ~(startTime <= endTime) THEN Revert("Invalid time range")
    ELSE LET found == populate(userDiaries[user], 0, startTime, endTime)
             matchCount == Len(found)
         IN Return(<<[k \in 1..matchCount |-> found[k].encryptedIpfsHash],
                     [k \in 1..matchCount |-> found[k].timestamp],
                     [k \in 1..matchCount |-> found[k].index]>>)

\* saveDiary putting the new entry at the front of the caller's list
saveDiary_Prepend(sender, encryptedIpfsHash, inputProof) ==
    /\ Len(saved) < MaxSaves
    /\ UNCHANGED <<state, clientState>>
    /\ IF ~fromExternalOk(sender, encryptedIpfsHash, inputProof)
       THEN /\ last' = Call("saveDiary", sender, 0, sender, Revert("InvalidProof"))
            /\ UNCHANGED userState
       ELSE LET newEntry == [encryptedIpfsHash |-> encryptedIpfsHash, timestamp |-> now]
                entryIndex == Len(userDiaries[sender])
            IN /\ userDiaries' = [userDiaries EXCEPT ![sender] = <<newEntry>> \o @]
               /\ diaryCount' = [diaryCount EXCEPT ![sender] = @ + 1]
               /\ hashAllowed' = [hashAllowed EXCEPT ![encryptedIpfsHash] =
                      @ \cup {This, sender}]
               /\ saved' = Append(saved, Saved(sender, encryptedIpfsHash))
               /\ last' = Call("saveDiary", sender, entryIndex, sender,
                      Receipt(<<>>, << <<"DiaryAdded", sender, entryIndex, now>> >>))

\* saveDiary counting the call before the coprocessor checks the proof
saveDiary_CountsFirst(sender, encryptedIpfsHash, inputProof) ==
    /\ Len(saved) < MaxSaves
    /\ UNCHANGED <<state, clientState>>
    /\ IF ~fromExternalOk(sender, encryptedIpfsHash, inputProof)
       THEN /\ last' = Call("saveDiary", sender, 0, sender, Revert("InvalidProof"))
            /\ diaryCount' = [diaryCount EXCEPT ![sender] = @ + 1]
            /\ UNCHANGED <<userDiaries, hashAllowed, saved>>
       ELSE LET newEntry == [encryptedIpfsHash |-> encryptedIpfsHash, timestamp |-> now]
                entryIndex == Len(Append(userDiaries[sender], newEntry)) - 1
            IN /\ userDiaries' = [userDiaries EXCEPT ![sender] = Append(@, newEntry)]
               /\ diaryCount' = [diaryCount EXCEPT ![sender] = @ + 1]
               /\ hashAllowed' = [hashAllowed EXCEPT ![encryptedIpfsHash] =
                      @ \cup {This, sender}]
               /\ saved' = Append(saved, Saved(sender, encryptedIpfsHash))
               /\ last' = Call("saveDiary", sender, entryIndex, sender,
                      Receipt(<<>>, << <<"DiaryAdded", sender, entryIndex, now>> >>))

saveDiary(sender, encryptedIpfsHash, inputProof) ==
    /\ Len(saved) < MaxSaves
    /\ UNCHANGED <<state, clientState>>
    /\ IF ~fromExternalOk(sender, encryptedIpfsHash, inputProof)
       THEN /\ last' = Call("saveDiary", sender, 0, sender, Revert("InvalidProof"))
            /\ UNCHANGED userState
       ELSE LET validatedHash == encryptedIpfsHash
                newEntry == [encryptedIpfsHash |-> validatedHash, timestamp |-> now]
                entryIndex == Len(Append(userDiaries[sender], newEntry)) - 1
            IN /\ userDiaries' = [userDiaries EXCEPT ![sender] = Append(@, newEntry)]
               /\ diaryCount' = [diaryCount EXCEPT ![sender] = @ + 1]
               /\ hashAllowed' = [hashAllowed EXCEPT ![validatedHash] =
                      @ \cup {This, sender}]
               /\ saved' = Append(saved, Saved(sender, validatedHash))
               /\ last' = Call("saveDiary", sender, entryIndex, sender,
                      Receipt(<<>>, << <<"DiaryAdded", sender, entryIndex, now>> >>))

\* calls of the per-user variant's view functions, which read no msg.sender
CallGetDiaryEntry(user, index) ==
    /\ last' = Call("getDiaryEntry", "anyone", index, user, getDiaryEntry(user, index))
    /\ UNCHANGED <<state, userState, clientState>>

CallGetAllDiaries(user) ==
    /\ last' = Call("getAllDiaries", "anyone", 0, user, getAllDiaries(user))
    /\ UNCHANGED <<state, userState, clientState>>

CallGetLatestDiary(user) ==
    /\ last' = Call("getLatestDiary", "anyone", 0, user, getLatestDiary(user))
    /\ UNCHANGED <<state, userState, clientState>>

\* a call of getDiariesInTimeRange, recorded with its two time arguments
CallGetDiariesInTimeRange(user, startTime, endTime) ==
    /\ last' = [op |-> "getDiariesInTimeRange", caller |-> "anyone", id |-> 0,
                user |-> user, startTime |-> startTime, endTime |-> endTime,
                status |-> getDiariesInTimeRange(user, startTime, endTime).status,
                ret |-> getDiariesInTimeRange(user, startTime, endTime).ret,
                logs |-> getDiariesInTimeRange(user, startTime, endTime).logs]
    /\ UNCHANGED <<state, userState, clientState>>

UserWrites(U, H) ==
    \/ \E s \in U, h \in H, p \in [handle : H, user : U] : saveDiary(s, h, p)
    \/ MineBlock

UserReads(U) ==
    \/ \E u \in U, k \in Indices : CallGetDiaryEntry(u, k)
    \/ \E u \in U : CallGetAllDiaries(u)
    \/ \E u \in U : CallGetLatestDiary(u)

(***************************************************************************)
(* task:add-diary of the command line: one addEntry transaction signed by  *)
(* the first signer, awaited, then one read of getTotalEntries.            *)
(***************************************************************************)
Signer == "alice"

\* from the encryption of the author to tx.wait(): the transaction is applied
TaskAddEntry(content, handle) ==
    /\ taskPc = "start"
    /\ addEntry(Signer, content, handle, [handle |-> handle, user |-> Signer])
    /\ taskPc' = IF last'.status = "ok" THEN "confirmed" ELSE "failed"
    /\ taskEntryId' = IF last'.status = "ok" THEN last'.ret[1] ELSE taskEntryId
    /\ UNCHANGED <<taskOutput, listState>>

\* the read of getTotalEntries and the two console.log lines
TaskReport ==
    /\ taskPc = "confirmed"
    /\ last' = Call("getTotalEntries", Signer, 0, Signer, Return(<<getTotalEntries>>))
    /\ taskOutput' = getTotalEntries
    /\ taskPc' = "done"
    /\ UNCHANGED <<state, userState, taskEntryId, listState>>

(***************************************************************************)
(* The DiaryList component.  entriesState is the React state `entries`;    *)
(* a decryptEntry call keeps the `entries` of the render in which its      *)
(* button was clicked, and runs from its last await to its end in one      *)
(* step.                                                                   *)
(***************************************************************************)
ListedIds == 1..MaxListed

\* what the contract holds as the content of an entry (iv:ciphertext), and the
\* string decryptString decodes from it with the decrypted key address
Ciphertext(entryId) == <<"ciphertext", entryId>>
decryptString(content, keyAddress) == <<"plaintext", content[2]>>

\* loadSingleEntry: the list item of an entry as read from the contract
loadSingleEntry(entryId) ==
    [id |-> entryId, content |-> Ciphertext(entryId), timestamp |-> entryId,
     isDecrypted |-> FALSE, encryptedAuthor |-> entryId]

\* the list loadEntries builds of the user's first count entries, newest first
validEntries(count) == [k \in 1..count |-> loadSingleEntry(count + 1 - k)]

\* entries.findIndex(e => e.id === entryId), 0 standing for -1
findIndex(list, entryId) ==
    IF \E k \in DOMAIN list : list[k].id = entryId
    THEN CHOOSE k \in DOMAIN list :
            list[k].id = entryId /\ \A j \in 1..(k - 1) : list[j].id # entryId
    ELSE 0

\* the starts of decryptEntry recorded since the last load
Started == SelectSeq(decryptLog, LAMBDA e : e[1] = "start")

\* refreshEntries: the Refresh button, disabled while loading
refreshEntries ==
    /\ ~isLoading
    /\ isLoading' = TRUE
    /\ UNCHANGED <<entriesState, decryptingEntries, decryptCalls, decryptLog>>
    /\ UNCHANGED <<state, userState, taskState, last>>

\* loadEntries from its reads to its end, count entries having been read
loadEntries(count) ==
    /\ isLoading
    /\ entriesState' = validEntries(count)
    /\ isLoading' = FALSE
    /\ decryptLog' = <<>>
    /\ UNCHANGED <<decryptingEntries, decryptCalls>>
    /\ UNCHANGED <<state, userState, taskState, last>>

\* loadEntries ending in its catch block
loadEntriesError ==
    /\ isLoading
    /\ isLoading' = FALSE
    /\ UNCHANGED <<entriesState, decryptingEntries, decryptCalls, decryptLog>>
    /\ UNCHANGED <<state, userState, taskState, last>>

\* a click on the decrypt button of a listed entry: decryptEntry up to its
\* first await
decryptEntry(entryId) ==
    /\ ~isLoading
    /\ Len(Started) < MaxDecrypts
    /\ findIndex(entriesState, entryId) # 0
    /\ ~entriesState[findIndex(entriesState, entryId)].isDecrypted
    /\ entryId \notin decryptingEntries
    /\ decryptingEntries' = decryptingEntries \cup {entryId}
    /\ decryptCalls' = decryptCalls \cup
           {[entryId |-> entryId, entries |-> entriesState,
             entryIndex |-> findIndex(entriesState, entryId)]}
    /\ decryptLog' = Append(decryptLog, <<"start", entryId>>)
    /\ UNCHANGED <<entriesState, isLoading>>
    /\ UNCHANGED <<state, userState, taskState, last>>

\* the running decryptEntry call of an entry: there is at most one, the button
\* of an entry being disabled while its id is in decryptingEntries
CallOf(entryId) == CHOOSE call \in decryptCalls : call.entryId = entryId

\* decryptEntry from its last await on, both decryptions having succeeded
decryptEntryDone(entryId) ==
    /\ \E call \in decryptCalls : call.entryId = entryId
    /\ LET call == CallOf(entryId)
           entry == call.entries[call.entryIndex]
           decryptedContent == decryptString(entry.content, call.entryId)
           updatedEntries == [call.entries EXCEPT ![call.entryIndex] =
                                 [entry EXCEPT !.content = decryptedContent,
                                               !.isDecrypted = TRUE]]
       IN entriesState' = updatedEntries
    /\ decryptingEntries' = decryptingEntries \ {entryId}
    /\ decryptCalls' = decryptCalls \ {CallOf(entryId)}
    /\ decryptLog' = Append(decryptLog, <<"done", entryId>>)
    /\ UNCHANGED isLoading
    /\ UNCHANGED <<state, userState, taskState, last>>

\* decryptEntry ending in its catch block
decryptEntryError(entryId) ==
    /\ \E call \in decryptCalls : call.entryId = entryId
    /\ decryptingEntries' = decryptingEntries \ {entryId}
    /\ decryptCalls' = decryptCalls \ {CallOf(entryId)}
    /\ decryptLog' = Append(decryptLog, <<"error", entryId>>)
    /\ UNCHANGED <<entriesState, isLoading>>
    /\ UNCHANGED <<state, userState, taskState, last>>

\* the state-changing functions
DiaryTransactions(U, C, H) ==
    \/ \E s \in U, c \in C, h \in H, p \in [handle : H, user : U] :
          CallAddEntry(s, c, h, p)
    \/ \E s \in U, i \in Ids, u \in U : grantAccess(s, i, u)
    \/ \E s \in U, i \in Ids, u \in U : revokeAccess(s, i, u)

\* the state-changing functions, and the ledger's clock
DiaryWrites(U, C, H) ==
    \/ DiaryTransactions(U, C, H)
    \/ MineBlock

\* the calls of the getters
DiaryReads(U) ==
    \/ \E s \in U, i \in Ids : CallGetEntry(s, i)
    \/ \E s \in U, i \in Ids : CallGetEntryContent(s, i)
    \/ \E s \in U, i \in Ids : CallGetEntryAuthor(s, i)

(***************************************************************************)
(* Spec: the transactions of every caller, one content and one handle      *)
(* (access control and the counter).                                       *)
(* SpecRead: the transactions with the calls of the getters, in one block. *)
(* SpecData: one caller, every content and handle (stored data).           *)
(***************************************************************************)
Next == DiaryWrites(Users, AccessContents, AccessHandles)

Spec == Init /\ [][Next]_vars

NextRead ==
    \/ DiaryTransactions(Users, AccessContents, AccessHandles)
    \/ DiaryReads(Users)

SpecRead == Init /\ [][NextRead]_vars

NextData == DiaryWrites(DataUsers, Contents, Handles) \/ DiaryReads(DataUsers)

SpecData == Init /\ [][NextData]_vars

(***************************************************************************)
(* SpecUser: the transactions of the per-user variant.                     *)
(* SpecUserRead: SpecUser with the calls of its view functions.            *)
(***************************************************************************)
NextUser == UserWrites(Users, Handles)

SpecUser == Init /\ [][NextUser]_vars

NextUserRead == NextUser \/ UserReads(Users)

SpecUserRead == Init /\ [][NextUserRead]_vars

(***************************************************************************)
(* SpecRange: the saves of every user, with the calls of                   *)
(* getDiariesInTimeRange that ask for one user's entries.                  *)
(***************************************************************************)
NextRange ==
    \/ UserWrites(Users, Handles)
    \/ \E u \in DataUsers, startTime \in QueryTimes, endTime \in QueryTimes :
          CallGetDiariesInTimeRange(u, startTime, endTime)

SpecRange == Init /\ [][NextRange]_vars

(***************************************************************************)
(* SpecEvents: every function of the two variants that emits an event:     *)
(* addEntry by every caller, grantAccess and revokeAccess by every caller  *)
(* for one identity, saveDiary by one caller.                              *)
(***************************************************************************)
NextEvents ==
    \/ \E s \in Users, c \in AccessContents, h \in AccessHandles,
          p \in [handle : AccessHandles, user : Users] : CallAddEntry(s, c, h, p)
    \/ \E s \in Users, i \in Ids, u \in DataUsers : grantAccess(s, i, u)
    \/ \E s \in Users, i \in Ids, u \in DataUsers : revokeAccess(s, i, u)
    \/ \E s \in DataUsers, h \in AccessHandles,
          p \in [handle : AccessHandles, user : Users] : saveDiary(s, h, p)
    \/ MineBlock

SpecEvents == Init /\ [][NextEvents]_vars

(***************************************************************************)
(* SpecAlone: the transactions of every caller, with the getter calls of   *)
(* one caller.                                                             *)
(***************************************************************************)
NextAlone == Next \/ DiaryReads(DataUsers)

SpecAlone == Init /\ [][NextAlone]_vars

(***************************************************************************)
(* SpecTask: task:add-diary, with the addEntry transactions of the other   *)
(* callers applied before, between and after its two steps.                *)
(***************************************************************************)
NextTask ==
    \/ \E c \in AccessContents, h \in AccessHandles : TaskAddEntry(c, h)
    \/ TaskReport
    \/ \E s \in Users \ {Signer}, c \in Contents, h \in Handles,
          p \in [handle : Handles, user : Users] :
            CallAddEntry(s, c, h, p)
    \/ MineBlock

SpecTask == Init /\ [][NextTask]_vars

(***************************************************************************)
(* SpecList: the DiaryList component, its loads and its decryptEntry calls *)
(* in every order.                                                         *)
(***************************************************************************)
NextList ==
    \/ refreshEntries
    \/ \E count \in 0..MaxListed : loadEntries(count)
    \/ loadEntriesError
    \/ \E entryId \in ListedIds : decryptEntry(entryId)
    \/ \E entryId \in ListedIds : decryptEntryDone(entryId)
    \/ \E entryId \in ListedIds : decryptEntryError(entryId)

SpecList == Init /\ [][NextList]_vars

(***************************************************************************)
(* SpecCreate: the create calls of both variants, with accepted and        *)
(* rejected proofs.                                                        *)
(***************************************************************************)
NextCreate ==
    \/ \E s \in Users, c \in AccessContents, h \in AccessHandles,
          p \in [handle : AccessHandles, user : Users] : CallAddEntry(s, c, h, p)
    \/ \E s \in Users, h \in AccessHandles,
          p \in [handle : AccessHandles, user : Users] : saveDiary(s, h, p)
    \/ MineBlock

SpecCreate == Init /\ [][NextCreate]_vars

(***************************************************************************)
(* SpecAdd: addEntry transactions of every caller, with every content and  *)
(* handle, in every order the ledger can apply them.                       *)
(***************************************************************************)
NextAdd ==
    \/ \E s \in Users, c \in Contents, h \in Handles,
          p \in [handle : Handles, user : Users] : CallAddEntry(s, c, h, p)
    \/ MineBlock

SpecAdd == Init /\ [][NextAdd]_vars

\* a step that is a call of the contract (a block being mined is not)
CallStep == now' = now

\* the most recent call was op and did not revert
Did(op) == last.op = op /\ last.status = "ok"

Getters == {"getEntry", "getEntryContent", "getEntryAuthor"}

(***************************************************************************)
(* C1: in every reachable state, getEntry, getEntryContent and             *)
(* getEntryAuthor of an existing entry, for a caller without access, fail  *)
(* with "Access denied" and return no data: both for every caller and id   *)
(* of the state and for the call last made.                                *)
(***************************************************************************)
C1_AccessDenied ==
    /\ \A s \in Users, i \in Ids :
          (entryExists(i) /\ ~hasAccess(i, s)) =>
              /\ getEntry(s, i) = Revert("Access denied")
              /\ getEntryContent(s, i) = Revert("Access denied")
              /\ getEntryAuthor(s, i) = Revert("Access denied")
    /\ (last.op \in Getters /\ entryExists(last.id) /\ ~hasAccess(last.id, last.caller)) =>
          (last.status = "Access denied" /\ last.ret = <<>>)

\* a getEntry of an existing entry was denied
C1_Witness ==
    /\ last.op = "getEntry"
    /\ entryExists(last.id)
    /\ last.status = "Access denied"

(***************************************************************************)
(* C2: right after a successful addEntry returning id, the creator has     *)
(* access to id and nobody else has; an identity gains access to an entry  *)
(* only by the addEntry that creates it (the creator) or by a successful   *)
(* grantAccess(id, u), and a successful revokeAccess(id, u) leaves u       *)
(* without access.                                                         *)
(***************************************************************************)
C2_AfterAdd ==
    Did("addEntry") =>
        /\ hasAccess(last.id, last.caller)
        /\ \A u \in Users \ {last.caller} : ~hasAccess(last.id, u)

C2_AfterRevoke == Did("revokeAccess") => ~hasAccess(last.id, last.user)

C2_GainOnlyByGrant ==
    \A i \in Ids, u \in Users :
        (~hasAccess(i, u) /\ entryAccess'[i][u]) =>
            \/ /\ last'.op = "addEntry" /\ last'.status = "ok"
               /\ last'.id = i /\ last'.caller = u
            \/ /\ last'.op = "grantAccess" /\ last'.status = "ok"
               /\ last'.id = i /\ last'.user = u

C2_AccessAfterCreation ==
    /\ [](C2_AfterAdd /\ C2_AfterRevoke)
    /\ [][C2_GainOnlyByGrant]_vars

\* the second entry was just created, by the identity that did not create the first
C2_Witness ==
    /\ Did("addEntry")
    /\ last.id = 2
    /\ created[1].creator # last.caller
    /\ ~hasAccess(2, created[1].creator)

(***************************************************************************)
(* C3: grantAccess and revokeAccess of an existing entry by a caller who   *)
(* is not a permitted reader revert with their "Only authorized users"     *)
(* message and leave the access table, the entries and the counter as      *)
(* they were.                                                              *)
(***************************************************************************)
C3_Step ==
    (CallStep /\ last'.op \in {"grantAccess", "revokeAccess"}
        /\ entryExists(last'.id) /\ ~hasAccess(last'.id, last'.caller)) =>
        /\ last'.status = IF last'.op = "grantAccess"
                          THEN "Only authorized users can grant access"
                          ELSE "Only authorized users can revoke access"
        /\ entryAccess' = entryAccess
        /\ entries' = entries
        /\ nextEntryId' = nextEntryId

C3_UnauthorizedGrantRevoke == [][C3_Step]_vars

\* an identity without access tried to revoke the creator's access
C3_Witness ==
    /\ last.op = "revokeAccess"
    /\ last.status = "Only authorized users can revoke access"
    /\ last.user = created[last.id].creator
    /\ hasAccess(last.id, last.user)
(***************************************************************************)
(* C4: after a successful grantAccess(id, B), B has access and B's         *)
(* getEntry(id) succeeds with the content given at creation; after a       *)
(* successful revokeAccess(id, B), B has no access and B's getEntry(id)    *)
(* fails with "Access denied", and it keeps failing so until a successful  *)
(* grantAccess(id, B).                                                     *)
(***************************************************************************)
C4_AfterGrant ==
    Did("grantAccess") =>
        /\ hasAccess(last.id, last.user)
        /\ getEntry(last.user, last.id).status = "ok"
        /\ getEntry(last.user, last.id).ret[1] = created[last.id].content

C4_AfterRevoke ==
    Did("revokeAccess") =>
        /\ ~hasAccess(last.id, last.user)
        /\ getEntry(last.user, last.id) = Revert("Access denied")

C4_DeniedUntilGranted ==
    \A i \in Ids, u \in Users :
        (/\ getEntry(u, i) = Revert("Access denied")
         /\ getEntry(u, i)' # Revert("Access denied")) =>
            /\ last'.op = "grantAccess" /\ last'.status = "ok"
            /\ last'.id = i /\ last'.user = u

C4_GrantThenRevoke ==
    /\ [](C4_AfterGrant /\ C4_AfterRevoke)
    /\ [][C4_DeniedUntilGranted]_vars

\* an identity that created no entry and was granted access (it holds the
\* coprocessor permission) has just had it revoked by the creator
C4_Witness ==
    /\ Did("revokeAccess")
    /\ last.caller = created[last.id].creator
    /\ last.caller # last.user
    /\ \A i \in Ids : created[i].creator # last.user
    /\ last.user \in fheAllowed[entries[last.id].encryptedAuthor]
    /\ getEntry(last.user, last.id).status = "Access denied"

(***************************************************************************)
(* C5: getTotalEntries() is 0 at deployment; a successful addEntry raises  *)
(* it by exactly 1 and returns an id greater than every id issued before;  *)
(* no other step changes it.                                               *)
(***************************************************************************)
C5_ZeroAtDeployment == last.op = "constructor" => getTotalEntries = 0

C5_Step ==
    IF CallStep /\ last'.op = "addEntry" /\ last'.status = "ok"
    THEN /\ nextEntryId' - 1 = getTotalEntries + 1
         /\ last'.ret = <<last'.id>>
         /\ \A i \in Ids : created[i].creator # "none" => last'.id > i
    ELSE nextEntryId' - 1 = getTotalEntries

C5_TotalEntries == []C5_ZeroAtDeployment /\ [][C5_Step]_vars

\* the second addEntry has succeeded
C5_Witness == Did("addEntry") /\ getTotalEntries = 2 /\ last.ret = <<2>>

(***************************************************************************)
(* C6: in every reachable state the existing entries are exactly the ids   *)
(* 1..getTotalEntries(); id 0 never exists.                                *)
(***************************************************************************)
C6_DenseIds ==
    /\ \A i \in Ids : entryExists(i) <=> (1 <= i /\ i <= getTotalEntries)
    /\ ~entryExists(0)

\* two entries exist
C6_Witness == getTotalEntries = 2 /\ entryExists(1) /\ entryExists(2)

(***************************************************************************)
(* C7: an entry that exists exists in every later state, and an id comes   *)
(* to exist only by the successful addEntry that returns it.               *)
(***************************************************************************)
C7_Step ==
    \A i \in Ids :
        /\ entryExists(i) => entries'[i].exists
        /\ (~entryExists(i) /\ entries'[i].exists) =>
              (last'.op = "addEntry" /\ last'.status = "ok" /\ last'.id = i)

C7_ExistsForever == [][C7_Step]_vars

\* an entry still exists after the last of its readers was revoked
C7_Witness ==
    /\ Did("revokeAccess")
    /\ entryExists(last.id)
    /\ \A u \in Users : ~hasAccess(last.id, u)

(***************************************************************************)
(* C8: round trip.  For every existing entry and every permitted reader,   *)
(* getEntry, getEntryContent and getEntryAuthor return the content and     *)
(* the handle passed to the addEntry that issued the id and the block      *)
(* timestamp of that call, whatever calls were made since.                 *)
(***************************************************************************)
C8_RoundTrip ==
    /\ \A s \in Users, i \in Ids :
          (entryExists(i) /\ hasAccess(i, s)) =>
              /\ getEntry(s, i) = Return(<<created[i].content,
                                           created[i].encryptedAuthorInput,
                                           created[i].timestamp>>)
              /\ getEntryContent(s, i) = Return(<<created[i].content>>)
              /\ getEntryAuthor(s, i) = Return(<<created[i].encryptedAuthorInput>>)
    /\ (last.op \in Getters /\ last.status = "ok") =>
          last.ret = CASE last.op = "getEntry" ->
                            <<created[last.id].content,
                              created[last.id].encryptedAuthorInput,
                              created[last.id].timestamp>>
                       [] last.op = "getEntryContent" -> <<created[last.id].content>>
                       [] OTHER -> <<created[last.id].encryptedAuthorInput>>

\* the first entry is read after a second one, with another content and
\* another handle, was created in a later block
C8_Witness ==
    /\ last.op = "getEntryContent"
    /\ last.status = "ok"
    /\ last.id = 1
    /\ entryExists(2)
    /\ created[2].content # created[1].content
    /\ created[2].encryptedAuthorInput # created[1].encryptedAuthorInput
    /\ created[2].timestamp > created[1].timestamp

(***************************************************************************)
(* C9: an existing entry's fields never change; a successful grantAccess   *)
(* or revokeAccess (id, u) changes only the permission of the pair (id, u) *)
(* and, on grant, the coprocessor permission of u on the entry's handle.   *)
(***************************************************************************)
C9_Immutable == \A i \in Ids : entryExists(i) => entries'[i] = entries[i]

C9_Frame ==
    (CallStep /\ last'.op \in {"grantAccess", "revokeAccess"} /\ last'.status = "ok") =>
        /\ entries' = entries
        /\ nextEntryId' = nextEntryId
        /\ \A j \in Ids, v \in Users :
              (j # last'.id \/ v # last'.user) => entryAccess'[j][v] = entryAccess[j][v]
        /\ fheAllowed' =
              IF last'.op = "grantAccess"
              THEN [fheAllowed EXCEPT ![entries[last'.id].encryptedAuthor] =
                       @ \cup {last'.user}]
              ELSE fheAllowed

C9_OnlyAccessMutable == [][C9_Immutable /\ C9_Frame]_vars

\* a grant on the second entry was made in a later block than the entry's
\* creation, while the first entry has a reader
C9_Witness ==
    /\ Did("grantAccess")
    /\ last.id = 2
    /\ last.user # last.caller
    /\ now > entries[2].timestamp
    /\ \E u \in Users : hasAccess(1, u)

(***************************************************************************)
(* C10 as stated: in every reachable state the creator of every existing   *)
(* entry is a permitted reader of it.                                      *)
(***************************************************************************)
C10_CreatorAlwaysReader ==
    \A i \in Ids : entryExists(i) => hasAccess(i, created[i].creator)

(***************************************************************************)
(* C10 amended: the creator is a permitted reader from the creation of     *)
(* the entry on, and loses that permission only by a successful            *)
(* revokeAccess(id, creator) made by an identity that is a permitted       *)
(* reader at that moment.                                                  *)
(***************************************************************************)
C10_Step ==
    \A i \in Ids :
        /\ (~entryExists(i) /\ entries'[i].exists) =>
              entryAccess'[i][created'[i].creator]
        /\ (entryExists(i) /\ hasAccess(i, created[i].creator)
                /\ ~entryAccess'[i][created[i].creator]) =>
              /\ last'.op = "revokeAccess" /\ last'.status = "ok"
              /\ last'.id = i /\ last'.user = created[i].creator
              /\ hasAccess(i, last'.caller)

C10_CreatorReaderUntilRevoked == [][C10_Step]_vars

\* the creator's access was revoked by another reader
C10_Witness ==
    /\ Did("revokeAccess")
    /\ last.user = created[last.id].creator
    /\ last.caller # last.user
    /\ ~hasAccess(last.id, last.user)
(***************************************************************************)
(* C11: the getters, grantAccess and revokeAccess called with an id that   *)
(* does not exist fail with "Entry does not exist" for every caller, and   *)
(* no call on a non-existent id fails with an access error.                *)
(***************************************************************************)
AccessErrors == {"Access denied", "Only authorized users can grant access",
                 "Only authorized users can revoke access"}

C11_NotFound ==
    /\ \A s \in Users, i \in Ids :
          ~entryExists(i) =>
              /\ getEntry(s, i) = Revert("Entry does not exist")
              /\ getEntryContent(s, i) = Revert("Entry does not exist")
              /\ getEntryAuthor(s, i) = Revert("Entry does not exist")
    /\ (last.op \in Getters \cup {"grantAccess", "revokeAccess"}
           /\ ~entryExists(last.id)) =>
          (last.status = "Entry does not exist" /\ last.ret = <<>>)
    /\ (last.op \in Getters \cup {"grantAccess", "revokeAccess"}
           /\ last.status \in AccessErrors) => entryExists(last.id)

\* getEntryAuthor of an id not yet issued was refused while entry 1 exists
C11_Witness ==
    /\ last.op = "getEntryAuthor"
    /\ last.id = 2
    /\ entryExists(1)
    /\ last.status = "Entry does not exist"

(***************************************************************************)
(* C12: hasAccess, entryExists and getTotalEntries have a value in every   *)
(* reachable state (getTotalEntries does not underflow); an id that was    *)
(* never created does not exist and nobody has access to it.               *)
(***************************************************************************)
C12_PureReads ==
    /\ getTotalEntries \in Nat
    /\ \A i \in Ids : entryExists(i) \in BOOLEAN
    /\ \A i \in Ids, u \in Users : hasAccess(i, u) \in BOOLEAN
    /\ \A i \in Ids :
          created[i] = NoCreation =>
              (~entryExists(i) /\ \A u \in Users : ~hasAccess(i, u))

\* a grant on an id not yet issued was attempted by a reader of entry 1
C12_Witness ==
    /\ last.op = "grantAccess"
    /\ last.id = 2
    /\ created[2] = NoCreation
    /\ hasAccess(1, last.caller)
    /\ last.status = "Entry does not exist"

(***************************************************************************)
(* C13: a successful grantAccess(id, u) when u already has access, and a   *)
(* successful revokeAccess(id, u) when u has none, leave the access table  *)
(* as it was; so does a grant (revoke) that repeats the grant (revoke)     *)
(* just made.                                                              *)
(***************************************************************************)
C13_Step ==
    /\ (CallStep /\ last'.op = "grantAccess" /\ last'.status = "ok"
           /\ hasAccess(last'.id, last'.user)) => entryAccess' = entryAccess
    /\ (CallStep /\ last'.op = "revokeAccess" /\ last'.status = "ok"
           /\ ~hasAccess(last'.id, last'.user)) => entryAccess' = entryAccess
    /\ (CallStep /\ last.status = "ok" /\ last'.status = "ok"
           /\ last.op \in {"grantAccess", "revokeAccess"}
           /\ last'.op = last.op /\ last'.id = last.id /\ last'.user = last.user) =>
          entryAccess' = entryAccess

C13_Idempotent == [][C13_Step]_vars

\* a reader granted access to itself: it had access already
C13_Witness ==
    /\ Did("grantAccess")
    /\ last.caller = last.user
    /\ last.caller # created[last.id].creator

(***************************************************************************)
(* C14 as stated: a successful grantAccess(id, u) for an identity that     *)
(* already has access changes nothing an observer can see: neither the     *)
(* storage nor the coprocessor permissions, and it emits no event.         *)
(***************************************************************************)
C14_RepeatedGrant ==
    CallStep /\ last'.op = "grantAccess" /\ last'.status = "ok"
        /\ hasAccess(last'.id, last'.user)

C14_NoObservableEffect ==
    [][C14_RepeatedGrant => (state' = state /\ last'.logs = <<>>)]_vars

(***************************************************************************)
(* C14 amended: such a grantAccess leaves the storage and the coprocessor  *)
(* permissions as they were, and emits one more AccessGranted(id, u).      *)
(***************************************************************************)
C14_StateUnchangedEventEmitted ==
    [][C14_RepeatedGrant =>
          /\ state' = state
          /\ last'.logs = << <<"AccessGranted", last'.id, last'.user>> >>]_vars

\* the creator of the second entry, a reader of it, granted access to itself
C14_Witness ==
    /\ Did("grantAccess")
    /\ last.id = 2
    /\ last.caller = last.user
    /\ last.user = created[2].creator
    /\ last.logs = << <<"AccessGranted", 2, last.user>> >>

(***************************************************************************)
(* C15: a create call whose (handle, proof) pair the coprocessor rejects   *)
(* fails and changes nothing: an addEntry allocates no id and leaves the   *)
(* counter, the entries, the access table and the decrypt permissions as   *)
(* they were; a saveDiary leaves every user's list and count and the       *)
(* decrypt permissions as they were; neither emits an event.               *)
(***************************************************************************)
C15_Rejected ==
    /\ last'.status # "ok"
    /\ last'.logs = <<>>
    /\ last'.ret = <<>>
    /\ state' = state
    /\ userState' = userState

C15_Step ==
    \A s \in Users, h \in AccessHandles,
       p \in [handle : AccessHandles, user : Users] :
        ~fromExternalOk(s, h, p) =>
            /\ \A c \in AccessContents : addEntry(s, c, h, p) => C15_Rejected
            /\ saveDiary(s, h, p) => C15_Rejected

C15_AllOrNothing == [][C15_Step]_vars

\* a rejected addEntry, after one entry was created and one diary saved
C15_Witness ==
    /\ last.op = "addEntry"
    /\ last.status = "InvalidProof"
    /\ nextEntryId = 2
    /\ getTotalEntries = 1
    /\ Len(saved) = 1
    /\ \A u \in Users : ~hasAccess(2, u)

(***************************************************************************)
(* C16: in every order in which addEntry calls of different callers are    *)
(* applied, a successful call receives an id that no earlier call          *)
(* received, stores its own content, handle and timestamp under that id    *)
(* with access for its caller alone, and leaves the entries and access     *)
(* rows of all other ids as they were; so the entry under every id stays   *)
(* the one of the call that received it.                                   *)
(***************************************************************************)
C16_Step ==
    \A s \in Users, c \in Contents, h \in Handles,
       p \in [handle : Handles, user : Users] :
        (addEntry(s, c, h, p) /\ fromExternalOk(s, h, p)) =>
            LET id == last'.id
            IN /\ last'.ret = <<id>>
               /\ ~entryExists(id)
               /\ created[id] = NoCreation
               /\ entries'[id] = [content |-> c, encryptedAuthor |-> h,
                                  timestamp |-> now, exists |-> TRUE]
               /\ \A u \in Users : entryAccess'[id][u] = (u = s)
               /\ \A j \in Ids \ {id} :
                      entries'[j] = entries[j] /\ entryAccess'[j] = entryAccess[j]

C16_EntryOfItsCall ==
    \A i \in Ids :
        entryExists(i) =>
            /\ entries[i].content = created[i].content
            /\ entries[i].encryptedAuthor = created[i].encryptedAuthorInput
            /\ entries[i].timestamp = created[i].timestamp
            /\ \A u \in Users : hasAccess(i, u) = (u = created[i].creator)

C16_NoCollision == []C16_EntryOfItsCall /\ [][C16_Step]_vars

\* two callers, two entries differing in content and handle, ids 1 and 2
C16_Witness ==
    /\ Did("addEntry")
    /\ last.id = 2
    /\ entryExists(1)
    /\ created[1].creator # created[2].creator
    /\ entries[1].content # entries[2].content
    /\ entries[1].encryptedAuthor # entries[2].encryptedAuthor
    /\ hasAccess(1, created[1].creator)
    /\ ~hasAccess(1, created[2].creator)

(***************************************************************************)
(* C17: getUserDiaryCount(u) is 0 for every user at deployment; a          *)
(* successful saveDiary by u increases getUserDiaryCount(u) by exactly 1,  *)
(* stores the new entry at the index equal to the previous count, keeps    *)
(* u's earlier entries at their indices, and leaves every other user's     *)
(* list and count unchanged.                                               *)
(***************************************************************************)
C17_ZeroAtDeployment ==
    last.op = "constructor" => \A u \in Users : getUserDiaryCount(u) = 0

C17_Step ==
    \A s \in Users, h \in Handles, p \in [handle : Handles, user : Users] :
        (saveDiary(s, h, p) /\ fromExternalOk(s, h, p)) =>
            LET count == getUserDiaryCount(s)
            IN /\ getUserDiaryCount(s)' = count + 1
               /\ \A k \in {count} : getDiaryEntry(s, k)' = Return(<<h, now>>)
               /\ last'.logs = << <<"DiaryAdded", s, count, now>> >>
               /\ \A k \in 0..(count - 1) : getDiaryEntry(s, k)' = getDiaryEntry(s, k)
               /\ \A u \in Users \ {s} :
                      /\ userDiaries'[u] = userDiaries[u]
                      /\ diaryCount'[u] = diaryCount[u]
                      /\ getUserDiaryCount(u)' = getUserDiaryCount(u)

C17_CountAndIndex == []C17_ZeroAtDeployment /\ [][C17_Step]_vars

\* alice's second entry, stored at index 1 while bob holds one entry
C17_Witness ==
    /\ Did("saveDiary")
    /\ last.caller = "alice"
    /\ last.id = 1
    /\ getUserDiaryCount("alice") = 2
    /\ getUserDiaryCount("bob") = 1
    /\ getDiaryEntry("alice", 0) # getDiaryEntry("alice", 1)

\* the successful saveDiary calls of user, in the order the ledger applied them
SavedBy(user) == SelectSeq(saved, LAMBDA e : e.user = user)

(***************************************************************************)
(* C18: after any interleaving of saveDiary calls, getAllDiaries(u)        *)
(* returns the handles and the timestamps of exactly the entries u saved,  *)
(* in the order u saved them, both arrays of length getUserDiaryCount(u);  *)
(* a call of getAllDiaries returns these arrays.                           *)
(***************************************************************************)
C18_AllDiaries ==
    /\ \A u \in Users :
          LET mine == SavedBy(u)
              all == getAllDiaries(u)
          IN /\ all.status = "ok"
             /\ Len(all.ret[1]) = getUserDiaryCount(u)
             /\ Len(all.ret[2]) = getUserDiaryCount(u)
             /\ all.ret[1] = [i \in 1..Len(mine) |-> mine[i].encryptedIpfsHash]
             /\ all.ret[2] = [i \in 1..Len(mine) |-> mine[i].timestamp]
    /\ last.op = "getAllDiaries" =>
          /\ last.status = "ok"
          /\ last.ret[1] = [i \in 1..Len(SavedBy(last.user)) |->
                               SavedBy(last.user)[i].encryptedIpfsHash]
          /\ last.ret[2] = [i \in 1..Len(SavedBy(last.user)) |->
                               SavedBy(last.user)[i].timestamp]

\* alice reads her two entries, saved around one of bob's
C18_Witness ==
    /\ last.op = "getAllDiaries"
    /\ last.user = "alice"
    /\ Len(saved) = 3
    /\ saved[1].user = "alice"
    /\ saved[2].user = "bob"
    /\ saved[3].user = "alice"
    /\ last.ret[1] = <<1, 2>>
    /\ last.ret[2] = <<1, 2>>

(***************************************************************************)
(* C19: whenever u has at least one entry, getLatestDiary(u) returns the   *)
(* handle and the timestamp of the entry u saved most recently, with the   *)
(* index getUserDiaryCount(u) - 1, whatever other users saved since; a     *)
(* call of getLatestDiary returns this triple.                             *)
(***************************************************************************)
C19_LatestOf(u) ==
    LET mine == SavedBy(u)
    IN Return(<<mine[Len(mine)].encryptedIpfsHash, mine[Len(mine)].timestamp,
                getUserDiaryCount(u) - 1>>)

C19_Latest ==
    /\ \A u \in Users :
          getUserDiaryCount(u) > 0 => getLatestDiary(u) = C19_LatestOf(u)
    /\ (last.op = "getLatestDiary" /\ getUserDiaryCount(last.user) > 0) =>
          /\ last.status = "ok"
          /\ last.ret = C19_LatestOf(last.user).ret

\* alice's latest of two differing entries, read after bob saved one
C19_Witness ==
    /\ last.op = "getLatestDiary"
    /\ last.user = "alice"
    /\ Len(saved) = 3
    /\ saved[3].user = "bob"
    /\ getDiaryEntry("alice", 0) # getDiaryEntry("alice", 1)
    /\ last.ret = <<saved[2].encryptedIpfsHash, saved[2].timestamp, 1>>

(***************************************************************************)
(* C20: getDiaryEntry(u, index) reverts with 'Diary entry does not exist'  *)
(* exactly when index >= getUserDiaryCount(u), and otherwise returns the   *)
(* handle and the timestamp of the entry u saved at that index;            *)
(* getLatestDiary(u) reverts with 'No diary entries found' exactly when    *)
(* getUserDiaryCount(u) is 0 and otherwise succeeds; calls of the two      *)
(* functions have these outcomes.                                          *)
(***************************************************************************)
C20_Of(u, index) ==
    IF index >= getUserDiaryCount(u) THEN Revert("Diary entry does not exist")
    ELSE Return(<<SavedBy(u)[index + 1].encryptedIpfsHash,
                  SavedBy(u)[index + 1].timestamp>>)

C20_Reverts ==
    /\ \A u \in Users, index \in Indices :
          /\ (getDiaryEntry(u, index).status = "Diary entry does not exist")
                 <=> (index >= getUserDiaryCount(u))
          /\ getDiaryEntry(u, index) = C20_Of(u, index)
    /\ \A u \in Users :
          /\ (getLatestDiary(u).status = "No diary entries found")
                 <=> (getUserDiaryCount(u) = 0)
          /\ getUserDiaryCount(u) # 0 => getLatestDiary(u).status = "ok"
    /\ last.op = "getDiaryEntry" =>
          /\ last.status = C20_Of(last.user, last.id).status
          /\ last.ret = C20_Of(last.user, last.id).ret
    /\ last.op = "getLatestDiary" =>
          ((last.status = "No diary entries found")
              <=> (getUserDiaryCount(last.user) = 0))

\* the first index past alice's two entries is refused, while bob has none
C20_Witness ==
    /\ last.op = "getDiaryEntry"
    /\ last.user = "alice"
    /\ last.id = 2
    /\ getUserDiaryCount("alice") = 2
    /\ last.status = "Diary entry does not exist"
    /\ getDiaryEntry("alice", 1).status = "ok"
    /\ getLatestDiary("bob").status = "No diary entries found"

(***************************************************************************)
(* C21: getDiariesInTimeRange(u, startTime, endTime) reverts with          *)
(* 'Invalid time range' when startTime > endTime; otherwise it returns     *)
(* three arrays of equal length, the indices ascending and being exactly   *)
(* the positions of u's entries with startTime <= timestamp <= endTime,    *)
(* the other two arrays holding the handle and the timestamp u saved at    *)
(* each of these positions; a call returns this outcome.                   *)
(***************************************************************************)
C21_InRange(u, startTime, endTime) ==
    {i \in 0..(getUserDiaryCount(u) - 1) :
        /\ startTime <= SavedBy(u)[i + 1].timestamp
        /\ SavedBy(u)[i + 1].timestamp <= endTime}

C21_Holds(u, startTime, endTime, status, ret) ==
    IF startTime > endTime
    THEN status = "Invalid time range" /\ ret = <<>>
    ELSE /\ status = "ok"
         /\ Len(ret) = 3
         /\ Len(ret[1]) = Len(ret[3])
         /\ Len(ret[2]) = Len(ret[3])
         /\ {ret[3][k] : k \in 1..Len(ret[3])} = C21_InRange(u, startTime, endTime)
         /\ \A k \in 1..(Len(ret[3]) - 1) : ret[3][k] < ret[3][k + 1]
         /\ \A k \in 1..Len(ret[3]) :
               /\ ret[1][k] = SavedBy(u)[ret[3][k] + 1].encryptedIpfsHash
               /\ ret[2][k] = SavedBy(u)[ret[3][k] + 1].timestamp

C22_Step ==
    CallStep =>
        /\ last'.status # "ok" =>
              last'.logs = <<>> /\ state' = state /\ userState' = userState
        /\ (last'.op = "addEntry" /\ last'.status = "ok") =>
              /\ last'.logs =
                    << <<"DiaryEntryAdded", last'.ret[1], last'.caller, now>> >>
              /\ ~entryExists(last'.ret[1])
              /\ entries'[last'.ret[1]].exists
        /\ (last'.op = "saveDiary" /\ last'.status = "ok") =>
              /\ last'.logs =
                    << <<"DiaryAdded", last'.caller,
                         Len(userDiaries'[last'.caller]) - 1, now>> >>
              /\ Len(userDiaries'[last'.caller]) = Len(userDiaries[last'.caller]) + 1
        /\ (last'.op = "grantAccess" /\ last'.status = "ok") =>
              /\ last'.logs = << <<"AccessGranted", last'.id, last'.user>> >>
              /\ entryAccess'[last'.id][last'.user]
        /\ (last'.op = "revokeAccess" /\ last'.status = "ok") =>
              /\ last'.logs = << <<"AccessRevoked", last'.id, last'.user>> >>
              /\ ~entryAccess'[last'.id][last'.user]
        /\ (state' # state \/ userState' # userState) => Len(last'.logs) = 1

C22_EventsMirrorState == [][C22_Step]_vars

\* alice's access to bob's entry 1 revoked by bob, after a diary was saved
C22_Witness ==
    /\ Did("revokeAccess")
    /\ last.logs = << <<"AccessRevoked", 1, "alice">> >>
    /\ last.caller = "bob"
    /\ Len(saved) = 1
    /\ fheAllowed[1] = {This, "alice", "bob"}

(***************************************************************************)
(* C23: every grantAccess and every revokeAccess on an existing entry      *)
(* made by an identity that is a permitted reader of it at that moment,    *)
(* creator or not, succeeds for every identity it names: after the grant   *)
(* the named identity is a reader, after the revoke it is not, also when   *)
(* it is the creator or the caller itself.                                 *)
(***************************************************************************)
C23_Step ==
    (CallStep /\ last'.op \in {"grantAccess", "revokeAccess"}
        /\ entryExists(last'.id) /\ hasAccess(last'.id, last'.caller)) =>
        /\ last'.status = "ok"
        /\ entryAccess'[last'.id][last'.user] = (last'.op = "grantAccess")

C23_ByPossession == [][C23_Step]_vars

\* a reader by grant has revoked the creator's access and kept its own
C23_Witness ==
    /\ Did("revokeAccess")
    /\ last.caller # created[last.id].creator
    /\ last.user = created[last.id].creator
    /\ ~hasAccess(last.id, last.user)
    /\ hasAccess(last.id, last.caller)

(***************************************************************************)
(* C24: once an existing entry has no permitted reader, it has none in     *)
(* every later state, every later grantAccess and revokeAccess on it       *)
(* reverts as unauthorized, and getEntry, getEntryContent and              *)
(* getEntryAuthor on it fail with 'Access denied' for every caller.        *)
(***************************************************************************)
C24_Stranded(i) == entryExists(i) /\ \A u \in Users : ~hasAccess(i, u)

C24_Step ==
    \A i \in Ids :
        C24_Stranded(i) =>
            /\ C24_Stranded(i)'
            /\ (CallStep /\ last'.op = "grantAccess" /\ last'.id = i) =>
                  last'.status = "Only authorized users can grant access"
            /\ (CallStep /\ last'.op = "revokeAccess" /\ last'.id = i) =>
                  last'.status = "Only authorized users can revoke access"
            /\ \A u \in Users :
                  /\ getEntry(u, i)' = Revert("Access denied")
                  /\ getEntryContent(u, i)' = Revert("Access denied")
                  /\ getEntryAuthor(u, i)' = Revert("Access denied")

C24_StrandedForever == [][C24_Step]_vars

\* the creator of entry 1, which has no reader left, is refused a grant
C24_Witness ==
    /\ C24_Stranded(1)
    /\ last.op = "grantAccess"
    /\ last.id = 1
    /\ last.caller = created[1].creator
    /\ last.user = created[1].creator
    /\ last.status = "Only authorized users can grant access"

(***************************************************************************)
(* C25: a successful revokeAccess(id, u) makes hasAccess(id, u) false and  *)
(* getEntry(id) fail for u with 'Access denied', and it leaves every       *)
(* coprocessor decrypt permission as it was: a u that was a reader keeps   *)
(* its permission on the entry's encrypted-author handle.                  *)
(***************************************************************************)
C25_Step ==
    (CallStep /\ last'.op = "revokeAccess" /\ last'.status = "ok") =>
        /\ ~entryAccess'[last'.id][last'.user]
        /\ \A u \in {last'.user}, i \in {last'.id} :
              getEntry(u, i)' = Revert("Access denied")
        /\ fheAllowed' = fheAllowed
        /\ hasAccess(last'.id, last'.user) =>
              last'.user \in fheAllowed'[entries[last'.id].encryptedAuthor]

C25_RevokeKeepsDecryptPermission == [][C25_Step]_vars

\* bob, a reader of alice's entry 1 by grant, revoked: denied, still permitted
C25_Witness ==
    /\ Did("revokeAccess")
    /\ last.id = 1
    /\ last.user = "bob"
    /\ created[1].creator = "alice"
    /\ nextEntryId = 2
    /\ getEntry("bob", 1) = Revert("Access denied")
    /\ "bob" \in fheAllowed[entries[1].encryptedAuthor]

(***************************************************************************)
(* C26: in every reachable state, every permitted reader of an existing    *)
(* entry holds decrypt permission on the entry's encrypted-author handle,  *)
(* and so does the contract; and no step removes an identity from the set  *)
(* of identities holding decrypt permission on a handle.                   *)
(***************************************************************************)
C26_ReadersMayDecrypt ==
    \A i \in Ids :
        entryExists(i) =>
            /\ This \in fheAllowed[entries[i].encryptedAuthor]
            /\ \A u \in Users :
                  hasAccess(i, u) => u \in fheAllowed[entries[i].encryptedAuthor]

C26_Step == \A h \in Handles : fheAllowed[h] \subseteq fheAllowed'[h]

C26_DecryptSuperset == []C26_ReadersMayDecrypt /\ [][C26_Step]_vars

\* bob reads alice's only entry by grant and holds the permission on its handle
C26_Witness ==
    /\ Did("grantAccess")
    /\ nextEntryId = 2
    /\ created[1].creator = "alice"
    /\ hasAccess(1, "bob")
    /\ hasAccess(1, "alice")
    /\ fheAllowed[entries[1].encryptedAuthor] = {This, "alice", "bob"}

(***************************************************************************)
(* C27: for an existing entry and an identity u that is not a permitted    *)
(* reader of it, no call made by u (addEntry, grantAccess, revokeAccess    *)
(* or a getter, on any id) makes hasAccess(id, u) true; the only step      *)
(* that makes it true is a successful grantAccess(id, u) whose caller is   *)
(* another identity, a permitted reader of the entry at that moment.       *)
(***************************************************************************)
C27_Step ==
    \A i \in Ids, u \in Users :
        (entryAccess'[i][u] # entryAccess[i][u] /\ entryExists(i) /\ ~hasAccess(i, u)) =>
            /\ (CallStep /\ last'.caller = u) => ~entryAccess'[i][u]
            /\ entryAccess'[i][u] =>
                  /\ last'.op = "grantAccess"
                  /\ last'.status = "ok"
                  /\ last'.id = i
                  /\ last'.user = u
                  /\ last'.caller # u
                  /\ hasAccess(i, last'.caller)

C27_NoSelfEscalation == [][C27_Step]_vars

\* bob, creator of entry 2 and no reader of entry 1, is refused a grant to
\* itself on entry 1
C27_Witness ==
    /\ last.op = "grantAccess"
    /\ last.caller = "bob"
    /\ last.user = "bob"
    /\ last.id = 1
    /\ last.status = "Only authorized users can grant access"
    /\ created[2].creator = "bob"
    /\ hasAccess(1, "alice")
    /\ ~hasAccess(1, "bob")

(***************************************************************************)
(* C28: after any sequence of saveDiary calls, accepted or rejected, by    *)
(* any users, diaryCount(u) equals getUserDiaryCount(u), the length of     *)
(* u's entry list, for every user u.                                       *)
(***************************************************************************)
C28_CountersInStep ==
    \A u \in Users :
        /\ diaryCount[u] = getUserDiaryCount(u)
        /\ diaryCount[u] = Len(userDiaries[u])

\* a rejected saveDiary of alice, after alice and bob have saved once each
C28_Witness ==
    /\ last.op = "saveDiary"
    /\ last.status = "InvalidProof"
    /\ last.caller = "alice"
    /\ diaryCount["alice"] = 1
    /\ diaryCount["bob"] = 1

(***************************************************************************)
(* C29: when task:add-diary has printed its "Entry ID", the printed value  *)
(* is the id that the task's own addEntry call returned, whatever          *)
(* addEntry transactions of other callers were applied between the task's  *)
(* transaction and its read of getTotalEntries.                            *)
(***************************************************************************)
C29_ReportsOwnEntryId == taskPc = "done" => taskOutput = taskEntryId

\* the task created entry 1, bob's addEntry created entry 2 before the read,
\* and the task printed 2
C29_Witness ==
    /\ taskPc = "done"
    /\ taskEntryId = 1
    /\ created[1].creator = Signer
    /\ created[2].creator = "bob"
    /\ taskOutput = 2

(***************************************************************************)
(* C30: when, since the list was loaded, decryptEntry was started for two  *)
(* different listed entries before either call finished, and both calls    *)
(* have finished with success, both entries are shown with isDecrypted     *)
(* true and their decrypted content, and neither id is in                  *)
(* decryptingEntries.                                                      *)
(***************************************************************************)
C30_BothDone(a, b) ==
    /\ a # b
    /\ decryptLog \in {<< <<"start", a>>, <<"start", b>>, <<"done", a>>, <<"done", b>> >>,
                        << <<"start", a>>, <<"start", b>>, <<"done", b>>, <<"done", a>> >>}

C30_Shown(entryId) ==
    \E k \in DOMAIN entriesState :
        /\ entriesState[k].id = entryId
        /\ entriesState[k].isDecrypted
        /\ entriesState[k].content = decryptString(Ciphertext(entryId), entryId)

C30_BothDecryptedShown ==
    \A a \in ListedIds, b \in ListedIds :
        C30_BothDone(a, b) =>
            /\ C30_Shown(a)
            /\ C30_Shown(b)
            /\ a \notin decryptingEntries
            /\ b \notin decryptingEntries

\* entries 1 and 2 were started together and both finished with success:
\* entry 2, the later to finish, is shown decrypted, entry 1 is shown encrypted
C30_Witness ==
    /\ C30_BothDone(1, 2)
    /\ decryptLog[4] = <<"done", 2>>
    /\ C30_Shown(2)
    /\ ~C30_Shown(1)
    /\ decryptingEntries = {}
    /\ entriesState[findIndex(entriesState, 1)] = loadSingleEntry(1)
====
